---- MODULE Spec2Model ----
(***************************************************************************)
(* Model of dqn_agents/buffers/replay_buffer.py: PrioritizedReplayBuffer,  *)
(* and the uniform ReplayBuffer (storage, maxsize, next_idx).              *)
(*                                                                         *)
(* Numbers.  Python floats are modelled as exact rationals <<n, d>> in     *)
(* lowest terms with d > 0.  Priorities are integers (the TD-errors fed to *)
(* update_priorities are drawn from integers, and the other priorities are *)
(* the initial priorities_max = 1 and the 0 written by the eviction path). *)
(* alpha starts at 1 and is kept as the number of decays by 0.99.          *)
(* x ** alpha is exact for alpha = 1 and for x in {0, 1}; for the decayed  *)
(* exponents 0.99^k it is the value of x ** alpha rounded to two decimals  *)
(* (PowTable).  x ** (-beta) is taken at beta = 1, the value beta has in   *)
(* every buffer built with compute_weights = True here (1 * 1.001 is       *)
(* clamped back to 1 by update_parameters).  Other initial values of beta  *)
(* are explored with compute_weights = False, where beta is no exponent.   *)
(***************************************************************************)
EXTENDS Integers, Sequences, FiniteSets, TLC

\* ---- bounds of the exploration --------------------------------------------
MaxCap == 3            \* buffer_size ranges over 1..MaxCap
MaxCalls == 4          \* calls to add (of either buffer) and update_parameters,
                       \* plus (td, index) pairs given to update_priorities,
                       \* in one behaviour
MaxTd == 2             \* TD-errors range over 1..MaxTd (and -MaxTd..-1)
MaxBatch == 2          \* batch sizes range over 1..MaxBatch

\* ---- rational arithmetic (Python float arithmetic, taken exactly) ----------
RECURSIVE GCD(_, _)
GCD(a, b) == IF b = 0 THEN a ELSE GCD(b, a % b)

Abs(a) == IF a < 0 THEN -a ELSE a

Norm(n, d) ==
  LET g == GCD(Abs(n), Abs(d))
      s == IF d < 0 THEN -1 ELSE 1
  IN  <<(s * n) \div g, (s * d) \div g>>

Rat(i) == <<i, 1>>
Zero == Rat(0)
One == Rat(1)
\* sums and comparisons go through the least common denominator
RAdd(x, y) ==
  LET g == GCD(x[2], y[2])
  IN  Norm(x[1] * (y[2] \div g) + y[1] * (x[2] \div g), (x[2] \div g) * y[2])
RNeg(x) == <<-x[1], x[2]>>
RSub(x, y) == RAdd(x, RNeg(y))
RMul(x, y) ==
  LET a == Norm(x[1], y[2])
      b == Norm(y[1], x[2])
  IN  Norm(a[1] * b[1], a[2] * b[2])
\* x / y for y # 0 (the callers raise ZeroDivisionError first when y = 0)
RDiv(x, y) == RMul(x, Norm(y[2], y[1]))
RLt(x, y) ==
  LET g == GCD(x[2], y[2])
  IN  x[1] * (y[2] \div g) < y[1] * (x[2] \div g)

\* ---- constructor constants -------------------------------------------------
alpha_decay_rate == <<99, 100>>
beta_growth_rate == <<1001, 1000>>

\* alpha is kept as init * alpha_decay_rate^decays: the initial exponent and
\* the number of times update_parameters has multiplied it by the decay rate
AlphaInit == [init |-> One, decays |-> 0]
BetaInit == One

\* self.alpha *= self.alpha_decay_rate
DecayAlpha(a) == [a EXCEPT !.decays = @ + 1]

\* p ** (0.99^k) for k = 1..8, in hundredths (rounded to two decimals)
PowTable ==
  [p \in 2..5 |->
     CASE p = 2 -> <<199, 197, 196, 195, 193, 192, 191, 190>>
       [] p = 3 -> <<297, 294, 290, 287, 284, 281, 278, 276>>
       [] p = 4 -> <<394, 389, 384, 379, 374, 369, 364, 359>>
       [] p = 5 -> <<492, 484, 477, 469, 462, 455, 448, 442>>]

\* p ** a for an integer p >= 0 and an exponent a = 0.99^a.decays
Pow(p, a) ==
  IF p = 0 THEN Zero
  ELSE IF p = 1 THEN One
  ELSE IF a.decays = 0 THEN Rat(p)
  ELSE Norm(PowTable[p][a.decays], 100)

\* x ** (-b) for a rational x # 0, at b = 1
NegPow(x, b) == RDiv(One, x)

\* ---- state -----------------------------------------------------------------
VARIABLES
  buffer_size,          \* self.buffer_size
  batch_size,           \* self.batch_size
  compute_weights,      \* self.compute_weights
  alpha,                \* self.alpha
  beta,                 \* self.beta
  experience_count,     \* self.experience_count
  experience,           \* self.experience: slot -> transition (0 = np.zeros row)
  data,                 \* self.data: slot -> [priority, probability, weight, index]
  priorities_sum_alpha, \* self.priorities_sum_alpha
  priorities_max,       \* self.priorities_max
  weights_max,          \* self.weights_max
  storage,              \* ReplayBuffer._storage
  maxsize,              \* ReplayBuffer._maxsize
  next_idx,             \* ReplayBuffer._next_idx
  calls,                \* history: calls to add and to update_parameters, and
                        \* (td, index) pairs given to update_priorities, so far
  result                \* history: the last call, its arguments and its outcome

vars == <<buffer_size, batch_size, compute_weights, alpha, beta,
          experience_count, experience, data, priorities_sum_alpha,
          priorities_max, weights_max, storage, maxsize, next_idx,
          calls, result>>

config == <<buffer_size, batch_size, compute_weights>>

\* the fields of the uniform ReplayBuffer
uniform == <<storage, maxsize, next_idx>>

\* the fields of the PrioritizedReplayBuffer
prioritized == <<config, alpha, beta, experience_count, experience, data,
                 priorities_sum_alpha, priorities_max, weights_max>>

Slots == 0..(buffer_size - 1)

\* a row of np.zeros(shape=(buffer_size, 4), dtype='object')
ZeroRow == [priority |-> 0, probability |-> Zero, weight |-> Zero, index |-> 0]

Min(a, b) == IF a < b THEN a ELSE b

\* Python's a % b for b > 0, and numpy's wrap of an index in -n..n-1
Wrap(i, n) == IF i < 0 THEN i + n ELSE i

\* ---- __init__ --------------------------------------------------------------
\* ReplayBuffer.__init__(size), for a buffer of the size of the prioritized one
UniformInit ==
  /\ storage = <<>>
  /\ maxsize = buffer_size
  /\ next_idx = 0

\* no call has been made
NoCalls ==
  [add |-> 0, update_priorities |-> 0, update_parameters |-> 0, uniform_add |-> 0]

Init ==
  /\ buffer_size \in 1..MaxCap
  /\ batch_size \in 1..MaxBatch
  /\ compute_weights \in BOOLEAN
  /\ alpha = AlphaInit
  /\ beta = BetaInit
  /\ experience_count = 0
  /\ experience = [i \in Slots |-> 0]
  /\ data = [i \in Slots |-> ZeroRow]
  /\ priorities_sum_alpha = Zero
  /\ priorities_max = 1
  /\ weights_max = One
  /\ UniformInit
  /\ calls = NoCalls
  /\ result = [op |-> "init", status |-> "ok"]

\* initial values of beta on both sides of the cap; the constructor takes any
BetaInits == {<<999, 1000>>, <<1000, 1001>>, One, <<2, 1>>}

\* __init__ with compute_weights = False and any of these values of beta (beta
\* is an exponent only where compute_weights is set)
InitAnneal ==
  /\ buffer_size \in 1..MaxCap
  /\ batch_size \in 1..MaxBatch
  /\ compute_weights = FALSE
  /\ alpha = AlphaInit
  /\ beta \in BetaInits
  /\ experience_count = 0
  /\ experience = [i \in Slots |-> 0]
  /\ data = [i \in Slots |-> ZeroRow]
  /\ priorities_sum_alpha = Zero
  /\ priorities_max = 1
  /\ weights_max = One
  /\ UniformInit
  /\ calls = NoCalls
  /\ result = [op |-> "init", status |-> "ok"]

\* ---- add -------------------------------------------------------------------
\* faulty variant: the maximum is not rescanned
MaxPriorityStale(d) == priorities_max

\* max(self.data, key=lambda x: x[0])[0]
MaxPriority(d) ==
  CHOOSE m \in {d[i].priority : i \in DOMAIN d} :
    \A i \in DOMAIN d : d[i].priority <= m

\* max(self.data, key=lambda x: x[2])[2]
MaxWeight(d) ==
  CHOOSE m \in {d[i].weight : i \in DOMAIN d} :
    \A i \in DOMAIN d : ~RLt(m, d[i].weight)

\* faulty variant: the slot is taken from the count before the increment
AddIndexBeforeIncrement(count, size) == (count - 1) % size

\* index = self.experience_count % self.buffer_size, after the increment
AddIndex(count, size) == count % size

\* faulty variant: the eviction branch wraps the count instead of capping it
AddCountWrapped(count, size) == count % size

\* self.experience_count = self.buffer_size, in the eviction branch
AddCountAfterEvict(count, size) == size

\* if temp[0] == self.priorities_max
EvictsMax(temp) == temp.priority = priorities_max

\* the state add leaves behind, and whether it raised
AddEffect(t) ==
  LET count1 == experience_count + 1
      index == AddIndex(count1, buffer_size)
      evict == count1 > buffer_size
      temp == data[index]
      sum1 == IF evict THEN RSub(priorities_sum_alpha, Pow(temp.priority, alpha))
              ELSE priorities_sum_alpha
      rescanP == evict /\ EvictsMax(temp)
      dataP == IF rescanP THEN [data EXCEPT ![index].priority = 0] ELSE data
      pmax1 == IF rescanP THEN MaxPriority(dataP) ELSE priorities_max
      rescanW == evict /\ compute_weights /\ temp.weight = weights_max
      dataW == IF rescanW THEN [dataP EXCEPT ![index].weight = Zero] ELSE dataP
      wmax1 == IF rescanW THEN MaxWeight(dataW) ELSE weights_max
      count2 == IF evict THEN AddCountAfterEvict(count1, buffer_size) ELSE count1
      priority == pmax1
      weight == wmax1
      sum2 == RAdd(sum1, Pow(priority, alpha))
      raised == sum2 = Zero
      probability == RDiv(Pow(priority, alpha), sum2)
  IN  [count |-> count2, sum |-> sum2, pmax |-> pmax1, wmax |-> wmax1,
       index |-> index, evicted |-> evict,
       status |-> IF raised THEN "ZeroDivisionError" ELSE "ok",
       experience |-> IF raised THEN experience
                      ELSE [experience EXCEPT ![index] = t],
       data |-> IF raised THEN dataW
                ELSE [dataW EXCEPT ![index] =
                        [priority |-> priority, probability |-> probability,
                         weight |-> weight, index |-> index]]]

\* the calls (and pairs) the exploration still allows
CallsLeft ==
  MaxCalls - (calls.add + calls.update_priorities + calls.update_parameters
              + calls.uniform_add)

Add ==
  /\ CallsLeft > 0
  /\ LET t == calls.add + 1
         e == AddEffect(t)
     IN  /\ experience_count' = e.count
         /\ priorities_sum_alpha' = e.sum
         /\ priorities_max' = e.pmax
         /\ weights_max' = e.wmax
         /\ experience' = e.experience
         /\ data' = e.data
         /\ calls' = [calls EXCEPT !.add = t]
         /\ result' = [op |-> "add", status |-> e.status, index |-> e.index,
                       transition |-> t, evicted |-> e.evicted,
                       old_max |-> priorities_max]
  /\ UNCHANGED <<config, alpha, beta, uniform>>

\* ---- update_priorities -----------------------------------------------------
\* the slots add has written (ids of transitions start at 1)
Occupied == {i \in Slots : experience[i] # 0}

\* faulty variant: the old contribution is not taken out of the running sum
SumAfterUpdateKeepsOld(sum, updated_priority, old_priority) ==
  RAdd(sum, Pow(updated_priority, alpha))

\* self.priorities_sum_alpha += updated_priority ** alpha - old_priority ** alpha
SumAfterUpdate(sum, updated_priority, old_priority) ==
  RAdd(sum, RSub(Pow(updated_priority, alpha), Pow(old_priority, alpha)))

\* faulty variant: the weight is computed whatever compute_weights says
UpdatedWeightAlways(base, wmax) == RDiv(NegPow(Rat(base), beta), wmax)

\* updated_weight, for base = N * updated_priority # 0 and wmax # 0
UpdatedWeight(base, wmax) ==
  IF compute_weights THEN RDiv(NegPow(Rat(base), beta), wmax) ELSE One

\* faulty variant: the record is assigned to every row
WriteRecordBroadcast(d, slot, record) == [i \in DOMAIN d |-> record]

\* self.data[index] = [...]: one row is assigned
WriteRecord(d, slot, record) == [d EXCEPT ![slot] = record]

\* one iteration of the loop body, on the state st the earlier pairs left
UpdateOne(st, td, index) ==
  LET N == Min(experience_count, buffer_size)
      updated_priority == td
      pmax1 == IF updated_priority > st.pmax THEN updated_priority ELSE st.pmax
      base == N * updated_priority
      raisedW == compute_weights /\ (base = 0 \/ st.wmax = Zero)
      updated_weight == UpdatedWeight(base, st.wmax)
      wmax1 == IF compute_weights /\ ~raisedW /\ RLt(st.wmax, updated_weight)
               THEN updated_weight ELSE st.wmax
      inRange == index \in (-buffer_size)..(buffer_size - 1)
      slot == Wrap(index, buffer_size)
      old_priority == st.data[slot].priority
      sum1 == SumAfterUpdate(st.sum, updated_priority, old_priority)
      updated_probability == RDiv(Pow(updated_priority, alpha), sum1)
  IN  IF raisedW
      THEN [st EXCEPT !.pmax = pmax1, !.status = "ZeroDivisionError"]
      ELSE IF ~inRange
      THEN [st EXCEPT !.pmax = pmax1, !.wmax = wmax1, !.status = "IndexError"]
      ELSE IF sum1 = Zero
      THEN [st EXCEPT !.pmax = pmax1, !.wmax = wmax1, !.sum = sum1,
                      !.status = "ZeroDivisionError"]
      ELSE [st EXCEPT !.pmax = pmax1, !.wmax = wmax1, !.sum = sum1,
                      !.data = WriteRecord(st.data, slot,
                                           [priority |-> updated_priority,
                                            probability |-> updated_probability,
                                            weight |-> updated_weight,
                                            index |-> index])]

\* for td, index in zip(tds, indices): the loop stops at the first exception
RECURSIVE UpdateLoop(_, _)
UpdateLoop(st, pairs) ==
  IF pairs = <<>> \/ st.status # "ok" THEN st
  ELSE UpdateLoop(UpdateOne(st, pairs[1][1], pairs[1][2]), Tail(pairs))

\* zip(tds, indices) for lists of 1..n elements
PairLists(TdSet, IndexSet, n) ==
  UNION {[1..k -> TdSet \X IndexSet] : k \in 1..n}

\* update_priorities(tds, indices), for the zipped lists in Calls
UpdatePriorities(Calls) ==
  /\ \E pairs \in Calls :
       LET st == UpdateLoop([pmax |-> priorities_max, wmax |-> weights_max,
                             sum |-> priorities_sum_alpha, data |-> data,
                             status |-> "ok"], pairs)
       IN  /\ priorities_max' = st.pmax
           /\ weights_max' = st.wmax
           /\ priorities_sum_alpha' = st.sum
           /\ data' = st.data
           /\ result' = [op |-> "update_priorities", status |-> st.status,
                         pairs |-> pairs]
           /\ calls' = [calls EXCEPT !.update_priorities = @ + Len(pairs)]
  /\ UNCHANGED <<config, alpha, beta, experience_count, experience, uniform>>

\* TD-errors and slot indices of a caller that keeps the contract
Tds == 1..MaxTd

UpdatePrioritiesOccupied == UpdatePriorities(PairLists(Tds, Occupied, CallsLeft))

\* ---- update_parameters ----------------------------------------------------
\* np.sum(self.data[:, 0] ** self.alpha), over every row of self.data
RECURSIVE SumPow(_, _, _)
SumPow(d, a, n) ==
  IF n = 0 THEN Zero ELSE RAdd(SumPow(d, a, n - 1), Pow(d[n - 1].priority, a))

\* faulty variant: a zero raised to a negative power gives inf, as for numpy
\* floats, instead of raising
ParamRaisesOnZeroSum(sum, base) == sum = Zero

\* whether lines 141-144 raise ZeroDivisionError for a row: a zero
\* priorities_sum_alpha, or a zero raised to -beta, or a zero weights_max
ParamRaises(sum, base) ==
  sum = Zero \/ (compute_weights /\ (base = Zero \/ weights_max = Zero))

\* the loop over the rows i..buffer_size-1 of self.data; st.data is the array
\* as the earlier iterations left it, and the loop stops at the first exception
RECURSIVE ParamLoop(_, _, _, _, _)
ParamLoop(st, i, a, b, sum) ==
  IF i = buffer_size \/ st.status # "ok" THEN st
  ELSE
    LET N == Min(experience_count, buffer_size)
        element == st.data[i]
        base == RMul(Rat(N), element.probability)
        raised == ParamRaises(sum, base)
        probability == RDiv(Pow(element.priority, a), sum)
        weight == IF compute_weights
                  THEN RDiv(NegPow(base, b), weights_max)
                  ELSE One
        row == Wrap(element.index, buffer_size)
    IN  IF raised
        THEN [st EXCEPT !.status = "ZeroDivisionError"]
        ELSE ParamLoop([st EXCEPT !.data[row] =
                          [priority |-> element.priority,
                           probability |-> probability,
                           weight |-> weight,
                           index |-> element.index]],
                       i + 1, a, b, sum)

\* faulty variant: the growth is not capped
NextBetaUncapped(b) == RMul(b, beta_growth_rate)

\* self.beta *= self.beta_growth_rate; if self.beta > 1: self.beta = 1
NextBeta(b) ==
  LET grown == RMul(b, beta_growth_rate)
  IN  IF RLt(One, grown) THEN One ELSE grown

UpdateParameters ==
  /\ CallsLeft > 0
  /\ LET a == DecayAlpha(alpha)
         b == NextBeta(beta)
         sum == SumPow(data, a, buffer_size)
         st == ParamLoop([data |-> data, status |-> "ok"], 0, a, b, sum)
     IN  /\ alpha' = a
         /\ beta' = b
         /\ priorities_sum_alpha' = sum
         /\ data' = st.data
         /\ result' = [op |-> "update_parameters", status |-> st.status]
  /\ calls' = [calls EXCEPT !.update_parameters = @ + 1]
  /\ UNCHANGED <<config, experience_count, experience, priorities_max,
                 weights_max, uniform>>

\* ---- sample ---------------------------------------------------------------
\* the total of the weights random.choices is given: sum(self.data[:, 1])
RECURSIVE SumProbability(_, _)
SumProbability(d, n) ==
  IF n = 0 THEN Zero ELSE RAdd(SumProbability(d, n - 1), d[n - 1].probability)

\* faulty variant: the draw ignores the weights
DrawableAnyRow == Slots

\* the rows random.choices can return: those of positive weight
Drawable == {i \in Slots : RLt(Zero, data[i].probability)}

\* total > 0, for the total of the weights random.choices accumulates: when no
\* weight is negative the total is positive exactly if some weight is
TotalIsPositive(d, n) ==
  IF \A i \in 0..(n - 1) : ~RLt(d[i].probability, Zero)
  THEN \E i \in 0..(n - 1) : RLt(Zero, d[i].probability)
  ELSE RLt(Zero, SumProbability(d, n))

\* random.choices raises ValueError when the total of the weights is not positive
ChoicesRaises == ~TotalIsPositive(data, buffer_size)

\* sampled_batch for the rows drawn, then the three aligned outputs
SampleOutputs(rows) ==
  LET sampled_batch == [j \in DOMAIN rows |-> data[rows[j]]]
      weights == [j \in DOMAIN rows |-> sampled_batch[j].weight]
      idx == [j \in DOMAIN rows |-> sampled_batch[j].index]
      transitions == [j \in DOMAIN rows |-> experience[Wrap(idx[j], buffer_size)]]
  IN  [op |-> "sample", status |-> "ok", transitions |-> transitions,
       weights |-> weights, idx |-> idx]

\* faulty variant: no check of the total: on a zero total the bisection of
\* random.choices falls on the last row
SampleResultsUnchecked ==
  {SampleOutputs(rows) :
     rows \in [1..batch_size -> IF Drawable = {} THEN {buffer_size - 1} ELSE Drawable]}

\* what sample() can do: raise out of random.choices, or return a batch
SampleResults ==
  IF ChoicesRaises
  THEN {[op |-> "sample", status |-> "ValueError"]}
  ELSE {SampleOutputs(rows) : rows \in [1..batch_size -> Drawable]}

Sample ==
  /\ \E r \in SampleResults : result' = r
  /\ UNCHANGED <<config, alpha, beta, experience_count, experience, data,
                 priorities_sum_alpha, priorities_max, weights_max, calls,
                 uniform>>

\* ---- ReplayBuffer ---------------------------------------------------------
\* faulty variant: the write position is not wrapped
UniformNextIdxUnwrapped(idx, size) == idx + 1

\* self._next_idx = (self._next_idx + 1) % self._maxsize
UniformNextIdx(idx, size) == (idx + 1) % size

\* ReplayBuffer.add(t): lists are 0-based in Python, 1-based here
UniformAdd ==
  /\ CallsLeft > 0
  /\ LET t == calls.uniform_add + 1
     IN  /\ storage' = IF next_idx >= Len(storage)
                       THEN Append(storage, t)
                       ELSE [storage EXCEPT ![next_idx + 1] = t]
         /\ next_idx' = UniformNextIdx(next_idx, maxsize)
         /\ calls' = [calls EXCEPT !.uniform_add = t]
         /\ result' = [op |-> "uniform_add", status |-> "ok",
                       index |-> next_idx, transition |-> t]
  /\ UNCHANGED <<prioritized, maxsize>>

\* what ReplayBuffer.sample(n) can do: random.randint(0, -1) raises ValueError
\* on an empty storage, otherwise n positions are drawn and their transitions
\* returned
UniformSampleResults(n) ==
  IF Len(storage) = 0
  THEN {[op |-> "uniform_sample", status |-> "ValueError"]}
  ELSE {[op |-> "uniform_sample", status |-> "ok",
         transitions |-> [j \in 1..n |-> storage[idxes[j] + 1]]] :
          idxes \in [1..n -> 0..(Len(storage) - 1)]}

UniformSample ==
  /\ \E n \in 1..MaxBatch : \E r \in UniformSampleResults(n) : result' = r
  /\ UNCHANGED <<prioritized, uniform, calls>>

\* ---- a caller that breaks the contract of update_priorities -----------------
\* slot indices around the valid range, written or not
AnyIndex == (-(buffer_size + 1))..buffer_size

\* update_priorities([td], [index]) with any such index
UpdatePrioritiesAnyIndex == UpdatePriorities(PairLists(Tds, AnyIndex, Min(1, CallsLeft)))

\* negative TD-errors, for slots add has written
NegativeTds == (-MaxTd)..(-1)

\* update_priorities([td], [index]) with a negative td
UpdatePrioritiesNegative ==
  UpdatePriorities(PairLists(NegativeTds, Occupied, Min(1, CallsLeft)))

Next ==
  \/ Add
  \/ UpdatePrioritiesOccupied
  \/ UpdateParameters
  \/ Sample

Spec == Init /\ [][Next]_vars

NextMisuse ==
  \/ Add
  \/ UpdatePrioritiesAnyIndex
  \/ UpdateParameters
  \/ Sample

SpecMisuse == Init /\ [][NextMisuse]_vars

\* a caller that passes negative TD-errors; alpha stays at its initial value 1
\* here (a negative number to a fractional power is a complex number in Python)
NextNegativeTd ==
  \/ Add
  \/ UpdatePrioritiesOccupied
  \/ UpdatePrioritiesNegative

SpecNegativeTd == Init /\ [][NextNegativeTd]_vars

\* the calls that change the buffer, from any initial beta
NextAnneal ==
  \/ Add
  \/ UpdatePrioritiesOccupied
  \/ UpdateParameters

SpecAnneal == InitAnneal /\ [][NextAnneal]_vars

\* the uniform ReplayBuffer on its own
NextUniform ==
  \/ UniformAdd
  \/ UniformSample

SpecUniform == Init /\ [][NextUniform]_vars

\* ---- vocabulary of the properties -------------------------------------------
\* __len__
BufferLen == experience_count

StoredTransitions == {experience[i] : i \in Occupied}

Full == experience_count >= buffer_size

RECURSIVE SumOver(_, _)
SumOver(f, S) ==
  IF S = {} THEN Zero
  ELSE LET i == CHOOSE i \in S : TRUE IN RAdd(f[i], SumOver(f, S \ {i}))

OccupiedProbabilities == [i \in Occupied |-> data[i].probability]
OccupiedPowers == [i \in Occupied |-> Pow(data[i].priority, alpha)]

\* ---- properties ---------------------------------------------------------------

\* C1: once at least buffer_size calls to add have been made, len() is
\* buffer_size and the stored transitions are exactly the buffer_size most
\* recently added ones.
CapacityCap ==
  calls.add >= buffer_size =>
    /\ BufferLen = buffer_size
    /\ StoredTransitions = (calls.add - buffer_size + 1)..calls.add

\* C2: whenever a slot is occupied, priorities_max is the largest priority of
\* the occupied slots.
ExtremumCorrect ==
  Occupied # {} =>
    /\ \E i \in Occupied : data[i].priority = priorities_max
    /\ \A i \in Occupied : data[i].priority <= priorities_max

\* C3: whenever a slot is occupied, the stored probabilities of the occupied
\* slots sum to 1.
ProbabilitiesSumToOne ==
  Occupied # {} => SumOver(OccupiedProbabilities, Occupied) = One

\* C4: when add has returned, every occupied slot's stored probability is its
\* priority ** alpha over the current priorities_sum_alpha.
AddRefreshesProbabilities ==
  (result.op = "add" /\ result.status = "ok") =>
    \A i \in Occupied :
      data[i].probability = RDiv(Pow(data[i].priority, alpha), priorities_sum_alpha)

\* C5: priorities_sum_alpha is the sum of priority ** alpha over the occupied
\* slots, whatever adds (evictions included) and updates of occupied slots with
\* positive TD-errors came before.
RunningSum ==
  priorities_sum_alpha = SumOver(OccupiedPowers, Occupied)

\* C5 witness: an add that evicted a record and stored a new one, after at
\* least two updates of priorities, with a priority above the initial one
RunningSumWitness ==
  /\ result.op = "add"
  /\ result.status = "ok"
  /\ calls.add > buffer_size
  /\ calls.update_priorities >= 2
  /\ priorities_max > 1

\* C6: a batch returned by sample has batch_size transitions, weights and slot
\* indices; every index is a slot add has written, and the transition and the
\* weight at each position are the ones stored in that slot.
SampleReturnsLiveData ==
  (result.op = "sample" /\ result.status = "ok") =>
    /\ Len(result.transitions) = batch_size
    /\ Len(result.weights) = batch_size
    /\ Len(result.idx) = batch_size
    /\ \A j \in 1..batch_size :
         /\ result.idx[j] \in Occupied
         /\ result.transitions[j] = experience[result.idx[j]]
         /\ result.weights[j] = data[result.idx[j]].weight

\* C6 witness: a batch of two different slots from a partly filled buffer
SampleReturnsLiveDataWitness ==
  /\ result.op = "sample"
  /\ result.status = "ok"
  /\ batch_size = 2
  /\ result.idx[1] # result.idx[2]
  /\ Occupied # Slots
  /\ calls.update_priorities > 0

\* C7: the buffer is full exactly from the add that brings the number of adds
\* to buffer_size on (before it, the occupied count is the number of adds), and
\* no step reduces the occupied count, the length, or leaves the full state.
Lifecycle ==
  /\ [](/\ Full <=> calls.add >= buffer_size
        /\ Cardinality(Occupied) = Min(calls.add, buffer_size)
        /\ BufferLen = Min(calls.add, buffer_size))
  /\ [][/\ Full => Full'
        /\ Cardinality(Occupied') >= Cardinality(Occupied)
        /\ BufferLen' >= BufferLen]_vars

\* C7 witness: a sample after adds past the capacity, an update of priorities
\* and an update of the parameters
LifecycleWitness ==
  /\ calls.add > buffer_size
  /\ calls.update_priorities > 0
  /\ calls.update_parameters > 0
  /\ result.op = "sample"
  /\ Full

\* C8: with compute_weights false, weights_max is 1, every occupied record has
\* weight 1 and every weight a sample returns is 1.
WeightsFixedAtOne ==
  ~compute_weights =>
    /\ weights_max = One
    /\ \A i \in Occupied : data[i].weight = One
    /\ (result.op = "sample" /\ result.status = "ok") =>
         \A j \in DOMAIN result.weights : result.weights[j] = One

\* C8 witness: a sample after an update to a priority above 1 and an update of
\* the parameters, on a buffer that does not compute weights
WeightsFixedAtOneWitness ==
  /\ ~compute_weights
  /\ priorities_max > 1
  /\ calls.update_parameters > 0
  /\ calls.add > buffer_size
  /\ result.op = "sample"
  /\ result.status = "ok"

\* C9: sample on a buffer no add has written to raises instead of returning a
\* batch, and changes nothing of the buffer.
SampleOnEmptyRaises ==
  [][(Occupied = {} /\ result'.op = "sample") =>
       /\ result'.status = "ValueError"
       /\ UNCHANGED <<config, alpha, beta, experience_count, experience, data,
                      priorities_sum_alpha, priorities_max, weights_max>>]_vars

\* C9 witness: sample has raised on a buffer without any add
SampleOnEmptyRaisesWitness ==
  /\ calls.add = 0
  /\ result.op = "sample"
  /\ result.status = "ValueError"

\* C10: an update_priorities call given a slot index that is negative or
\* >= buffer_size raises IndexError and updates no record.
OutOfRangeIndexRejected ==
  [][(/\ result'.op = "update_priorities"
      /\ \E j \in DOMAIN result'.pairs : result'.pairs[j][2] \notin Slots) =>
       /\ result'.status = "IndexError"
       /\ data' = data]_vars

\* C11: an update_priorities call given a negative TD-error is rejected and
\* leaves priorities_sum_alpha, priorities_max, weights_max and every record
\* as they were.
NegativeTdRejected ==
  [][(/\ result'.op = "update_priorities"
      /\ \E j \in DOMAIN result'.pairs : result'.pairs[j][1] < 0) =>
       /\ result'.status # "ok"
       /\ UNCHANGED <<priorities_sum_alpha, priorities_max, weights_max, data>>]_vars

\* x <= y for rationals
RLe(x, y) == ~RLt(y, x)

\* a <= b for values of alpha that started from the same initial value
\* (alpha = init * 0.99 ^ decays)
AlphaLe(a, b) == a.init = b.init /\ a.decays >= b.decays

\* C12 as stated: after one or more update_parameters calls, from any initial
\* beta > 0, beta <= 1; no step lowers beta and no step raises alpha, and
\* 0 < alpha <= initial alpha.
AnnealingAsStated ==
  /\ [](calls.update_parameters >= 1 => RLe(beta, One))
  /\ [](RLt(Zero, alpha.init) /\ AlphaLe(alpha, AlphaInit))
  /\ [][RLe(beta, beta') /\ AlphaLe(alpha', alpha)]_vars

\* C12: after one or more update_parameters calls, from any initial beta > 0,
\* beta <= 1; no step raises alpha, 0 < alpha <= initial alpha, and no step
\* lowers a beta that is at most 1 (the first call lowers an initial beta
\* above 1 to 1).
AnnealingCap ==
  /\ [](calls.update_parameters >= 1 => RLe(beta, One))
  /\ [](RLt(Zero, alpha.init) /\ AlphaLe(alpha, AlphaInit))
  /\ [][AlphaLe(alpha', alpha) /\ (RLe(beta, One) => RLe(beta, beta'))]_vars

\* two update_parameters calls have run and the second one capped beta
AnnealingWitness ==
  /\ result.op = "update_parameters"
  /\ calls.update_parameters >= 2
  /\ alpha.decays = calls.update_parameters
  /\ beta = One

\* C13: after n calls to ReplayBuffer.add, len(buffer) = min(n, size), the
\* k-th add (0-based) sits at position k mod size for each of the min(n, size)
\* latest adds, the storage holds exactly those, and the add just made wrote
\* position (n - 1) mod size.
UniformFifo ==
  LET n == calls.uniform_add
      kept == Min(n, maxsize)
  IN  /\ Len(storage) = kept
      /\ \A k \in (n - kept)..(n - 1) : storage[(k % maxsize) + 1] = k + 1
      /\ {storage[j] : j \in 1..Len(storage)} = (n - kept + 1)..n
      /\ result.op = "uniform_add" =>
           /\ result.index = (n - 1) % maxsize
           /\ storage[result.index + 1] = n

\* an add has overwritten the oldest transition of a ReplayBuffer of size >= 2
UniformFifoWitness ==
  /\ result.op = "uniform_add"
  /\ maxsize >= 2
  /\ calls.uniform_add > maxsize
  /\ Len(storage) = maxsize

\* C14: PrioritizedReplayBuffer.add writes the slot (number of adds made before
\* this call) mod capacity, so the first add writes slot 0, and an add that
\* returns normally leaves its transition in that slot.
WriteSlotIsAddsBefore ==
  [][result'.op = "add" =>
       /\ result'.index = calls.add % buffer_size
       /\ result'.status = "ok" =>
            experience'[calls.add % buffer_size] = calls.add + 1]_vars

\* the largest priority add finds once the record in slot i is zeroed
MaxWithout(i) ==
  LET rest == {0} \cup {data[j].priority : j \in Slots \ {i}}
  IN  CHOOSE m \in rest : \A p \in rest : p <= m

\* C15: when add overwrites a record whose priority equals priorities_max,
\* priorities_max becomes the largest priority of the remaining slots; the
\* record add then inserts has that priority, weight weights_max and the index
\* of the slot written, and it has the evicted record's priority only if
\* another slot holds that priority too.
EvictionRescan ==
  [][(/\ result'.op = "add"
      /\ Full
      /\ data[result'.index].priority = priorities_max) =>
       LET i == result'.index
       IN  /\ priorities_max' = MaxWithout(i)
           /\ result'.status = "ok" =>
                /\ experience'[i] = result'.transition
                /\ data'[i].priority = priorities_max'
                /\ data'[i].weight = weights_max'
                /\ data'[i].index = i
                /\ data'[i].priority = data[i].priority =>
                     \E j \in Slots \ {i} : data[j].priority = data[i].priority]_vars

\* add evicted the only record of the largest priority, and the record it
\* inserted has the lower maximum of the other slots
EvictionRescanWitness ==
  /\ result.op = "add"
  /\ result.status = "ok"
  /\ result.evicted
  /\ priorities_max < result.old_max
  /\ data[result.index].priority = priorities_max

\* C16: when update_parameters returns, priorities_sum_alpha is the sum of
\* priority ^ alpha over the records for the new alpha, every occupied record
\* has probability priority ^ alpha / priorities_sum_alpha, and priorities_max
\* and weights_max are the largest priority and the largest weight of the
\* occupied slots.
UpdateParametersRestores ==
  (result.op = "update_parameters" /\ result.status = "ok") =>
    /\ priorities_sum_alpha = SumPow(data, alpha, buffer_size)
    /\ \A i \in Occupied :
         data[i].probability = RDiv(Pow(data[i].priority, alpha), priorities_sum_alpha)
    /\ \A i \in Occupied : data[i].priority <= priorities_max
    /\ \E i \in Occupied : data[i].priority = priorities_max
    /\ \A i \in Occupied : RLe(data[i].weight, weights_max)
    /\ \E i \in Occupied : data[i].weight = weights_max

\* the slot every add on a full buffer writes
FullWriteSlot == (buffer_size + 1) % buffer_size

\* the transition that the filling of the buffer left in slot i: the adds
\* 1..buffer_size write the slots 1, 2, ..., buffer_size - 1, 0
FillTransition(i) == IF i = 0 THEN buffer_size ELSE i

\* C17 as stated: once the buffer is full every add leaves experience_count at
\* the capacity, writes slot (capacity + 1) mod capacity and leaves the
\* transitions of the other slots alone, and a transition it stores replaces
\* the transition added by the previous add.
SameSlotReplacesPrevious ==
  [][(result'.op = "add" /\ Full) =>
       /\ experience_count' = buffer_size
       /\ result'.index = FullWriteSlot
       /\ \A i \in Slots \ {FullWriteSlot} : experience'[i] = experience[i]
       /\ result'.status = "ok" =>
            /\ experience'[FullWriteSlot] = result'.transition
            /\ experience[FullWriteSlot] = calls.add]_vars

\* C17: once the buffer is full every add leaves experience_count at the
\* capacity, writes slot (capacity + 1) mod capacity and leaves the
\* transitions of the other slots alone, so these stay the ones the filling
\* left; a transition it stores replaces the one the filling left in that slot
\* or one stored by an earlier add on the full buffer, which is the previously
\* added one when the previous call was such an add.
SameSlotOverwrite ==
  /\ [](Full => \A i \in Slots \ {FullWriteSlot} : experience[i] = FillTransition(i))
  /\ [][(result'.op = "add" /\ Full) =>
          /\ experience_count' = buffer_size
          /\ result'.index = FullWriteSlot
          /\ \A i \in Slots \ {FullWriteSlot} : experience'[i] = experience[i]
          /\ result'.status = "ok" =>
               /\ experience'[FullWriteSlot] = result'.transition
               /\ experience[FullWriteSlot] \in
                    {FillTransition(FullWriteSlot)} \cup (buffer_size + 1)..calls.add
               /\ (result.op = "add" /\ result.status = "ok" /\ result.evicted) =>
                    experience[FullWriteSlot] = calls.add]_vars

\* two adds in a row on a full buffer of capacity >= 2: the second replaced the
\* transition of the first
SameSlotOverwriteWitness ==
  /\ buffer_size >= 2
  /\ result.op = "add"
  /\ result.status = "ok"
  /\ calls.add >= buffer_size + 2
  /\ experience[FullWriteSlot] = calls.add
  /\ buffer_size + 1 \notin StoredTransitions

\* C18: update_parameters on a buffer that is not full, with compute_weights
\* set, raises ZeroDivisionError at row 0, which add has not written, before
\* any record is rewritten and after alpha, beta and priorities_sum_alpha have
\* been assigned their new values, so the state is not the one before the call.
UpdateParametersFailsWhenNotFull ==
  [][(result'.op = "update_parameters" /\ compute_weights /\ ~Full) =>
       /\ result'.status = "ZeroDivisionError"
       /\ 0 \notin Occupied
       /\ priorities_sum_alpha' = Zero \/ data[0].probability = Zero
       /\ data' = data
       /\ alpha' = DecayAlpha(alpha)
       /\ alpha' # alpha
       /\ beta' = NextBeta(beta)
       /\ priorities_sum_alpha' = SumPow(data, alpha', buffer_size)]_vars

\* update_parameters has failed on a partly filled buffer whose records have
\* been given priorities by update_priorities
UpdateParametersFailsWitness ==
  /\ result.op = "update_parameters"
  /\ result.status = "ZeroDivisionError"
  /\ compute_weights
  /\ ~Full
  /\ Occupied # {}
  /\ calls.update_priorities > 0
  /\ alpha.decays = 1
  /\ priorities_sum_alpha # Zero

\* an add on a full buffer that evicts a record of priority priorities_max
\* while no other slot has a positive priority leaves priorities_max and
\* priorities_sum_alpha at 0 and raises ZeroDivisionError, storing nothing
AddFailsOnLastPriority ==
  (/\ result'.op = "add"
   /\ Full
   /\ data[FullWriteSlot].priority = priorities_max
   /\ \A j \in Slots \ {FullWriteSlot} : data[j].priority <= 0) =>
    /\ result'.status = "ZeroDivisionError"
    /\ priorities_max' = 0
    /\ data'[FullWriteSlot].priority = 0
    /\ priorities_sum_alpha' = Zero
    /\ experience' = experience

\* C19: such an add fails without storing, an add that follows a failed add
\* fails too, and a buffer of capacity 1 never holds a transition other than
\* the first one added.
AddFailsForever ==
  /\ [][AddFailsOnLastPriority]_vars
  /\ [][(result.op = "add" /\ result.status # "ok" /\ result'.op = "add") =>
          result'.status = "ZeroDivisionError"]_vars
  /\ [](buffer_size = 1 => StoredTransitions \subseteq {1})

\* the slot indices an update_priorities call was given
ListedSlots(r) == {r.pairs[j][2] : j \in DOMAIN r.pairs}

\* C20: an update_priorities call leaves the stored transitions,
\* experience_count, alpha, beta and the configuration as they were, and
\* leaves the record of every slot that is not listed as it was; only the
\* listed records and the three aggregates can change.
UpdatePrioritiesFrame ==
  [][result'.op = "update_priorities" =>
       /\ UNCHANGED <<experience, experience_count, alpha, beta, config, uniform>>
       /\ \A i \in Slots \ ListedSlots(result') : data'[i] = data[i]]_vars

\* update_priorities has changed priorities_sum_alpha and left an occupied slot
\* it was not given with a probability computed with an earlier denominator
UpdatePrioritiesFrameWitness ==
  /\ result.op = "update_priorities"
  /\ result.status = "ok"
  /\ \E i \in Occupied \ ListedSlots(result) :
       data[i].probability #
         RDiv(Pow(data[i].priority, alpha), priorities_sum_alpha)
====
